---- MODULE Spec2Model ----
(***************************************************************************)
(* Model of the alert ingestion and dispatch pipeline of                   *)
(* prometheus-alerts-handler: Handler.ServeHTTP (handler/alertshandler.go),*)
(* Registry.Register / Registry.ProcessAlert (processors/registry.go) and  *)
(* the Process method of the five processor variants.                      *)
(*                                                                         *)
(* Threads: one goroutine per HTTP request (Requests), one per Register    *)
(* call (Registrars), and one goroutine per (alert, processor) launched by *)
(* ProcessAlert.  Every action is one step between two points where the    *)
(* goroutine touches shared state (the RWMutex, the processor slice, the   *)
(* WaitGroup, a prometheus counter) or may block.                          *)
(***************************************************************************)
EXTENDS Integers, Sequences, FiniteSets, TLC

\* ---- bounds of the model ------------------------------------------------
NumRequests == 2
NumRegistrars == 2
MaxAlerts == 2

Requests == 1..NumRequests
Registrars == 1..NumRegistrars

\* ---- program constants --------------------------------------------------
StatusOK == 200
StatusAccepted == 202
StatusBadRequest == 400
StatusMethodNotAllowed == 405
StatusInternalServerError == 500

Kinds == {"basic", "slack", "email", "webhook", "pagerduty"}
HTTPKinds == {"slack", "webhook", "pagerduty"}

\* What a destination can answer to one transmission: an HTTP status, a
\* network error (HTTP kinds), or the outcome of smtp.SendMail (email).
Reply(err, status) == [err |-> err, status |-> status]
HTTPReplies ==
    {Reply(FALSE, StatusOK), Reply(FALSE, StatusAccepted),
     Reply(FALSE, StatusInternalServerError), Reply(TRUE, 0)}
SMTPReplies == {Reply(FALSE, 0), Reply(TRUE, 0)}
Replies(kind) == IF kind \in HTTPKinds THEN HTTPReplies ELSE SMTPReplies

Methods == {"POST", "GET", "PUT"}

\* ---- request bodies -----------------------------------------------------
\* A body is what ioutil.ReadAll returns: a read error, bytes that are not
\* JSON, or a JSON value.  Of a JSON value the decoders only look at its
\* type t, at the presence and type of the "alerts" member, and at the type
\* of the elements of the alert list: n is the number of elements, and elem
\* says what they are: JSON objects ("object"), JSON nulls ("null", which
\* json.Unmarshal decodes without error into the zero Alert) or values that
\* do not decode into an Alert ("other": numbers, strings, arrays, or an
\* object with a member of the wrong type).  meta stands for the values of
\* the other members of an envelope (version, groupKey, status, receiver,
\* groupLabels, commonLabels).
Metas == {"m1", "m2"}
Body(t, n, elem, meta) == [t |-> t, n |-> n, elem |-> elem, meta |-> meta]

\* The bodies the model sends.  Lists of every length up to MaxAlerts come
\* as objects and as undecodable elements; a null element and a second value
\* of the envelope metadata come with a list of one.
Bodies ==
    {Body("readerr", 0, "", ""), Body("garbage", 0, "", ""),
     Body("null", 0, "", ""), Body("scalar", 0, "", ""),
     Body("object", 0, "", "")}
    \cup {Body("array", 0, "", ""), Body("array", 1, "null", "")}
    \cup {Body("array", n, e, "") : n \in 1..MaxAlerts, e \in {"object", "other"}}
    \cup {Body("envelope", 0, "", "m1"), Body("envelope", 1, "null", "m1")}
    \cup {Body("envelope", 1, "object", m) : m \in Metas}
    \cup {Body("envelope", n, e, "m1") :
              n \in 1..MaxAlerts, e \in {"object", "other"}}

\* does a list of b.n elements of kind b.elem decode into []types.Alert
\* (a decoder that takes no list)
ElementsDecodeNever(b) == FALSE
ElementsDecode(b) == b.elem # "other"

\* json.Unmarshal(body, &alertMsg): err and len(alertMsg.Alerts)
\* (a decoder that accepts only one value of the other envelope members)
UnmarshalAlertMessageStrict(b) ==
    IF b.t \in {"null", "object"} THEN [err |-> FALSE, n |-> 0]
    ELSE IF b.t = "envelope" /\ ElementsDecode(b) /\ b.meta = "m1"
    THEN [err |-> FALSE, n |-> b.n]
    ELSE [err |-> TRUE, n |-> 0]

UnmarshalAlertMessage(b) ==
    CASE b.t = "garbage" -> [err |-> TRUE, n |-> 0]
      [] b.t = "null" -> [err |-> FALSE, n |-> 0]
      [] b.t = "scalar" -> [err |-> TRUE, n |-> 0]
      [] b.t = "array" -> [err |-> TRUE, n |-> 0]
      [] b.t = "object" -> [err |-> FALSE, n |-> 0]
      [] b.t = "envelope" -> IF ElementsDecode(b)
                             THEN [err |-> FALSE, n |-> b.n]
                             ELSE [err |-> TRUE, n |-> 0]
      [] OTHER -> [err |-> TRUE, n |-> 0]

\* json.Unmarshal(body, &alerts): err and len(alerts)
UnmarshalAlerts(b) ==
    CASE b.t = "garbage" -> [err |-> TRUE, n |-> 0]
      [] b.t = "null" -> [err |-> FALSE, n |-> 0]
      [] b.t = "scalar" -> [err |-> TRUE, n |-> 0]
      [] b.t = "array" -> IF ElementsDecode(b)
                          THEN [err |-> FALSE, n |-> b.n]
                          ELSE [err |-> TRUE, n |-> 0]
      [] b.t = "object" -> [err |-> TRUE, n |-> 0]
      [] b.t = "envelope" -> [err |-> TRUE, n |-> 0]
      [] OTHER -> [err |-> TRUE, n |-> 0]

\* The alert sequence a decode leaves: element k of the list of the body, in
\* order; a null element has become the zero Alert.
\* (a decode that reverses the list)
AlertsReversed(b) == [k \in 1..b.n |-> [pos |-> b.n + 1 - k, elem |-> b.elem]]
Alerts(b) == [k \in 1..b.n |-> [pos |-> k, elem |-> b.elem]]

\* ---- http.ResponseWriter ------------------------------------------------
\* hdr is the handler's header map, sentCT the Content-Type that went on the
\* wire: headers are frozen by the first WriteHeader, later changes of the
\* map are not sent and a second WriteHeader is ignored (superfluous).
NoBody == [status |-> ""]
NewResponseWriter ==
    [wroteHeader |-> FALSE, code |-> 0, hdr |-> "", sentCT |-> "",
     superfluous |-> 0, body |-> NoBody]

HeaderSet(w, ct) == [w EXCEPT !.hdr = ct]

WriteHeader(w, code) ==
    IF w.wroteHeader
    THEN [w EXCEPT !.superfluous = @ + 1]
    ELSE [w EXCEPT !.wroteHeader = TRUE, !.code = code, !.sentCT = w.hdr]

Encode(w, payload) ==
    LET w1 == IF w.wroteHeader THEN w ELSE WriteHeader(w, StatusOK)
    IN [w1 EXCEPT !.body = payload,
                  !.sentCT = IF @ = "" THEN "text/plain; charset=utf-8" ELSE @]

respondWithJSON(w, statusCode, payload) ==
    Encode(WriteHeader(HeaderSet(w, "application/json"), statusCode), payload)

\* (an error response that forgets its status code)
respondWithErrorOK(w, statusCode, message) ==
    respondWithJSON(w, StatusOK, [status |-> "error", error |-> message])

respondWithError(w, statusCode, message) ==
    respondWithJSON(w, statusCode, [status |-> "error", error |-> message])

SuccessPayload(n) ==
    [status |-> "success", message |-> "Alerts received and processed",
     count |-> n]

\* lines 62-67: the envelope branch calls WriteHeader before respondWithJSON
RespondEnvelope(w, n) ==
    respondWithJSON(WriteHeader(w, StatusOK), StatusOK, SuccessPayload(n))

\* lines 94-98: the array branch
RespondArray(w, n) == respondWithJSON(w, StatusOK, SuccessPayload(n))

\* ---- the router of main.go 71-72 --------------------------------------------
\* A request reaches Handler.ServeHTTP through the mux route
\* Handle("/alerts", alertHandler).Methods("POST"), or by a direct call of
\* ServeHTTP (the handler tests).  For a method that no route of the path
\* matches, the mux answers itself: WriteHeader(405), no header, no body.
Vias == {"router", "direct"}
Routed(via, method) == via = "direct" \/ method = "POST"
methodNotAllowed(w) == WriteHeader(w, StatusMethodNotAllowed)

\* ---- ServeHTTP lines 31-82: method check, body read, format decision -----
\* path "envelope" / "array" is the branch that accepts the request, n the
\* length of the alert sequence; "reject" carries the error response; read
\* says that ioutil.ReadAll(r.Body) was called.
\* line 79: len(alerts) == 0
\* (ServeHTTP without the empty check)
NoAlertsNever(n) == FALSE
NoAlerts(n) == n = 0

Decide(method, body) ==
    IF method # "POST"
    THEN [path |-> "reject", n |-> 0, code |-> StatusMethodNotAllowed,
          msg |-> "Only POST method is allowed", read |-> FALSE]
    ELSE IF body.t = "readerr"
    THEN [path |-> "reject", n |-> 0, code |-> StatusBadRequest,
          msg |-> "Error reading request body", read |-> TRUE]
    ELSE LET env == UnmarshalAlertMessage(body)
             arr == UnmarshalAlerts(body)
         IN IF ~env.err /\ env.n > 0
            THEN [path |-> "envelope", n |-> env.n, code |-> StatusOK, msg |-> "",
                  read |-> TRUE]
            ELSE IF arr.err
            THEN [path |-> "reject", n |-> 0, code |-> StatusBadRequest,
                  msg |-> "Invalid JSON format", read |-> TRUE]
            ELSE IF NoAlerts(arr.n)
            THEN [path |-> "reject", n |-> 0, code |-> StatusBadRequest,
                  msg |-> "No alerts in request", read |-> TRUE]
            ELSE [path |-> "array", n |-> arr.n, code |-> StatusOK, msg |-> "",
                  read |-> TRUE]

\* ---- sync.RWMutex of the registry ---------------------------------------
\* writer: a goroutine has called Lock and not yet Unlock: it owns the
\* writer mutex and has announced itself, so new readers and other writers
\* wait; it holds the lock once the readers that were in have left.
\* readers is the number of read locks held.
NewRWMutex == [writer |-> FALSE, readers |-> 0]
\* (a plain Mutex in the place of the RWMutex: one holder at a time)
CanRLockExclusive(m) == ~m.writer /\ m.readers = 0
\* (a read lock that is granted while a writer waits)
CanRLockAlways(m) == TRUE
CanRLock(m) == ~m.writer
\* (a Lock that does not exclude other writers)
CanLockAlways(m) == TRUE
CanLock(m) == ~m.writer
LockGranted(m) == m.readers = 0

\* ---- processors ----------------------------------------------------------
\* error result of the transmission of each variant for one destination reply
sendToWebhook(reply) ==
    reply.err \/ reply.status < 200 \/ reply.status >= 300
sendToSlack(reply) == reply.err \/ reply.status # StatusOK
sendToPagerDuty(reply) == reply.err \/ reply.status # StatusAccepted
sendEmail(reply) == reply.err

SendFails(kind, reply) ==
    CASE kind = "webhook" -> sendToWebhook(reply)
      [] kind = "slack" -> sendToSlack(reply)
      [] kind = "pagerduty" -> sendToPagerDuty(reply)
      [] kind = "email" -> sendEmail(reply)
      [] OTHER -> FALSE

\* The recover() of the deferred closure of each launched goroutine: does a
\* panic of Process go on unwinding the goroutine (and kill the process)?
\* (the same goroutine without the recover)
PanicEscapesUnrecovered(faulted) == faulted
PanicEscapes(faulted) == FALSE

\* What Process leaves in the memory it shares with other goroutines: the
\* alert (its Labels and Annotations maps are shared by every copy of the
\* Alert value) and the fields of its receiver.  Every variant only reads
\* them: buildSlackMessage, buildPagerDutyEvent (which copies the maps into
\* a new customDetails map), buildEmailBody, json.Marshal(alert).
\* (a Process that writes its annotations into the alert's own map)
AlertAfterAnnotated(kind, alert) ==
    IF kind = "pagerduty" THEN [alert EXCEPT !.elem = "annotated"] ELSE alert
AlertAfter(kind, alert) == alert
\* (a Process that falls back to the basic variant after its first call)
ConfigAfterReset(kind) == "basic"
ConfigAfter(kind) == kind

\* Which counters the end of Process adds to, for the result of its
\* transmission (st = "ok" | "err").
\* (a Process that counts a success twice)
CountProcessedTwice(st) == IF st = "ok" THEN 2 ELSE 0
CountProcessed(st) == IF st = "ok" THEN 1 ELSE 0
\* (a Process that forgets AlertsProcessingErrors.Inc())
CountErrorNever(st) == 0
CountError(st) == IF st = "err" THEN 1 ELSE 0

\* ---- state ---------------------------------------------------------------
VARIABLES
    processors,  \* Registry.processors: sequence of processor kinds
    mu,          \* Registry.mu
    rpc,         \* per Register call: "idle" | "pending" | "held" | "done"
    rtmp,        \* per Register call: the slice value read by append
    pc,          \* per request: position in ServeHTTP / ProcessAlert
    req,         \* per request: [method, body, path, n, read, alerts]; alerts
                 \* is the decoded slice alertMsg.Alerts / alerts
    w,           \* per request: its http.ResponseWriter
    cur,         \* per request: index of the alert being dispatched
    snap,        \* per request: the slice the range loop iterates
    next,        \* per request: next index of the range loop
    wg,          \* per request: the WaitGroup counter of the dispatch
    tasks,       \* per request and alert: the goroutines launched
    received,    \* metrics.AlertsReceived
    processed,   \* metrics.AlertsProcessed
    errors,      \* metrics.AlertsProcessingErrors
    observed,    \* number of ProcessingDuration.Observe calls
    crashed,     \* a panic left a goroutine: the process is gone
    hist,        \* per request: what the claims need to remember
    load         \* Registry.LoadFromConfig: [cfg, i, ret]

vars == <<processors, mu, rpc, rtmp, pc, req, w, cur, snap, next, wg, tasks,
          received, processed, errors, observed, crashed, hist, load>>

regVars == <<processors, mu, rpc, rtmp>>
reqVars == <<pc, req, w, cur, snap, next>>
metricVars == <<received, processed, errors, observed>>

NoReq ==
    [method |-> "", body |-> Body("none", 0, "", ""), path |-> "", n |-> 0,
     read |-> FALSE, alerts |-> <<>>]

\* One launched goroutine.  st: "none" (not launched), "start" (Process
\* called), "ok" / "err" (the transmission returned nil / an error), "done"
\* (Process has returned or panicked and the deferred calls have run).  calls: times Process was invoked for this (alert,
\* processor); att: transmissions made by the running Process.
NoTask ==
    [st |-> "none", kind |-> "", calls |-> 0, att |-> 0, reply |-> Reply(FALSE, 0)]
Slots == 1..NumRegistrars
AlertIdx == 1..MaxAlerts

\* History kept per request for the claims: the length of the registry and
\* the number of finished Register calls when the current dispatch took its
\* read lock; whether a goroutine of the current dispatch has panicked; the
\* number of this request's transmissions that failed; the error counter
\* when the request was accepted; the alerts passed to ProcessAlert so far,
\* and for each of them the length of the registry at its read lock.
NoHist ==
    [atLock |-> 0, regDone |-> 0, faulted |-> FALSE, failed |-> 0,
     errBefore |-> 0, sent |-> <<>>, lens |-> <<>>]

\* LoadFromConfig has returned nil with nothing to load
NoLoad == [cfg |-> <<>>, i |-> 1, ret |-> "nil"]

Init ==
    /\ processors = <<>>
    /\ mu = NewRWMutex
    /\ rpc = [r \in Registrars |-> "idle"]
    /\ rtmp = [r \in Registrars |-> <<>>]
    /\ pc = [h \in Requests |-> "idle"]
    /\ req = [h \in Requests |-> NoReq]
    /\ w = [h \in Requests |-> NewResponseWriter]
    /\ cur = [h \in Requests |-> 0]
    /\ snap = [h \in Requests |-> <<>>]
    /\ next = [h \in Requests |-> 0]
    /\ wg = [h \in Requests |-> 0]
    /\ tasks = [h \in Requests |-> [a \in AlertIdx |-> [i \in Slots |-> NoTask]]]
    /\ received = 0
    /\ processed = 0
    /\ errors = 0
    /\ observed = 0
    /\ crashed = FALSE
    /\ hist = [h \in Requests |-> NoHist]
    /\ load = NoLoad

\* ---- Registry.Register (registry.go 25-29) --------------------------------
\* r.mu.Lock(): take the writer mutex and announce the writer
RegisterLock(r) ==
    /\ ~crashed
    /\ rpc[r] = "idle"
    /\ CanLock(mu)
    /\ mu' = [mu EXCEPT !.writer = TRUE]
    /\ rpc' = [rpc EXCEPT ![r] = "pending"]
    /\ UNCHANGED <<load, processors, rtmp, reqVars, wg, tasks, metricVars, crashed, hist>>

\* Lock returns once the readers have left; append reads the slice
RegisterAcquire(r) ==
    /\ ~crashed
    /\ rpc[r] = "pending"
    /\ LockGranted(mu)
    /\ rtmp' = [rtmp EXCEPT ![r] = processors]
    /\ rpc' = [rpc EXCEPT ![r] = "held"]
    /\ UNCHANGED <<load, processors, mu, reqVars, wg, tasks, metricVars, crashed, hist>>

\* The processor a Register call is given: the first call registers a
\* processor of any variant, the others the generic webhook or the
\* logging-only processor (the variants share no state, and differ only in
\* how they judge the reply of their destination).
Offered(r) == IF r = 1 THEN Kinds ELSE {"basic", "webhook"}

\* r.processors = append(...), then the deferred r.mu.Unlock()
RegisterAppend(r) ==
    /\ ~crashed
    /\ rpc[r] = "held"
    /\ \E kind \in Offered(r) : processors' = Append(rtmp[r], kind)
    /\ mu' = [mu EXCEPT !.writer = FALSE]
    /\ rtmp' = [rtmp EXCEPT ![r] = <<>>]
    /\ rpc' = [rpc EXCEPT ![r] = "done"]
    /\ UNCHANGED <<load, reqVars, wg, tasks, metricVars, crashed, hist>>

\* ---- metrics.AlertsReceived.Add (alertshandler.go 53 / 85) ----------------
\* prometheus.Counter.Add is one atomic addition
\* (a counter that is set instead of added to)
CounterSet(c, n) == n
CounterAdd(c, n) == c + n

\* ---- Handler.ServeHTTP (alertshandler.go 28-99) ----------------------------
\* lines 29-53 / 71-85: the request arrives; the router turns it away, or
\* ServeHTTP is called and it is rejected with an error
\* response, or accepted and its alerts are added to AlertsReceived; the
\* loop over the alerts is skipped when there is none
ServeHTTP(h) ==
    /\ ~crashed
    /\ pc[h] = "idle"
    /\ \E via \in Vias, method \in Methods, body \in Bodies :
          LET d == Decide(method, body)
          IN IF ~Routed(via, method)
             THEN /\ req' = [req EXCEPT ![h] = [method |-> method, body |-> body,
                                                path |-> "router", n |-> 0,
                                                read |-> FALSE, alerts |-> <<>>]]
                  /\ w' = [w EXCEPT ![h] = methodNotAllowed(@)]
                  /\ pc' = [pc EXCEPT ![h] = "done"]
                  /\ UNCHANGED <<received, cur, hist>>
             ELSE /\ req' = [req EXCEPT ![h] = [method |-> method, body |-> body,
                                                path |-> d.path, n |-> d.n,
                                                read |-> d.read,
                                                alerts |-> IF d.path = "reject"
                                                           THEN <<>>
                                                           ELSE Alerts(body)]]
                  /\ IF d.path = "reject"
                     THEN /\ w' = [w EXCEPT ![h] = respondWithError(@, d.code, d.msg)]
                          /\ pc' = [pc EXCEPT ![h] = "done"]
                          /\ UNCHANGED <<received, cur, hist>>
                     ELSE /\ received' = CounterAdd(received, d.n)
                          /\ cur' = [cur EXCEPT ![h] = 1]
                          /\ pc' = [pc EXCEPT ![h] =
                                       IF d.n = 0 THEN "observe" ELSE "dispatch"]
                          /\ hist' = [hist EXCEPT ![h].errBefore = errors]
                          /\ UNCHANGED w
    /\ UNCHANGED <<load, regVars, snap, next, wg, tasks, processed, errors, observed,
                   crashed>>

\* ---- Registry.ProcessAlert (registry.go 32-56) ----------------------------
\* line 36: len(r.processors) == 0
\* (ProcessAlert without the early return)
IsEmptyNever(procs) == FALSE
IsEmpty(procs) == Len(procs) = 0

\* the slice the range statement of line 43 iterates, and the end of its loop
RangeOver(procs) == procs
\* (a loop that stops one element early)
RangeDoneEarly(i, s) == i >= Len(s)
RangeDone(i, s) == i > Len(s)

\* lines 33-43: r.mu.RLock(), the empty check, and the evaluation of the
\* range expression
ProcessAlertRLock(h) ==
    /\ ~crashed
    /\ pc[h] = "dispatch"
    /\ CanRLock(mu)
    /\ mu' = [mu EXCEPT !.readers = @ + 1]
    /\ hist' = [hist EXCEPT ![h].atLock = Len(processors),
                            ![h].regDone = Cardinality({r \in Registrars : rpc[r] = "done"}),
                            ![h].sent = Append(@, req[h].alerts[cur[h]]),
                            ![h].lens = Append(@, Len(processors))]
    /\ IF IsEmpty(processors)
       THEN /\ pc' = [pc EXCEPT ![h] = "empty"]
            /\ UNCHANGED <<snap, next>>
       ELSE /\ snap' = [snap EXCEPT ![h] = RangeOver(processors)]
            /\ next' = [next EXCEPT ![h] = 1]
            /\ pc' = [pc EXCEPT ![h] =
                         IF RangeDone(1, RangeOver(processors)) THEN "wait" ELSE "spawn"]
    /\ UNCHANGED <<load, processors, rpc, rtmp, req, w, cur, wg, tasks, metricVars,
                   crashed>>

\* lines 44-53: wg.Add(1); go func(p) {... p.Process(alert)}(processor)
Launch(t, kind) ==
    [st |-> "start", kind |-> kind, calls |-> t.calls + 1, att |-> 0,
     reply |-> Reply(FALSE, 0)]

\* one iteration of the range loop
ProcessAlertSpawn(h) ==
    /\ ~crashed
    /\ pc[h] = "spawn"
    /\ LET i == next[h]
       IN /\ tasks' = [tasks EXCEPT ![h][cur[h]][i] = Launch(@, snap[h][i])]
          /\ wg' = [wg EXCEPT ![h] = @ + 1]
          /\ next' = [next EXCEPT ![h] = i + 1]
          /\ pc' = [pc EXCEPT ![h] =
                       IF RangeDone(i + 1, snap[h]) THEN "wait" ELSE "spawn"]
    /\ UNCHANGED <<load, regVars, req, w, cur, snap, metricVars, crashed, hist>>

\* line 55: wg.Wait() returns when the counter is zero
\* (ProcessAlert without the wg.Wait())
WaitReturnsAtOnce(n) == TRUE
WaitReturns(n) == n = 0

\* lines 55-56 (or 38 when the registry is empty): wg.Wait() returns, the
\* deferred r.mu.RUnlock() runs and ProcessAlert returns to the loop of
\* ServeHTTP (lines 55-57 / 87-89); the history of the dispatch is dropped
ProcessAlertReturn(h) ==
    /\ ~crashed
    /\ \/ pc[h] = "wait" /\ WaitReturns(wg[h])
       \/ pc[h] = "empty"
    /\ mu' = [mu EXCEPT !.readers = @ - 1]
    /\ snap' = [snap EXCEPT ![h] = <<>>]
    /\ next' = [next EXCEPT ![h] = 0]
    /\ IF cur[h] < req[h].n
       THEN /\ cur' = [cur EXCEPT ![h] = @ + 1]
            /\ pc' = [pc EXCEPT ![h] = "dispatch"]
       ELSE /\ pc' = [pc EXCEPT ![h] = "observe"]
            /\ UNCHANGED cur
    /\ hist' = [hist EXCEPT ![h].atLock = 0, ![h].regDone = 0,
                            ![h].faulted = FALSE]
    /\ UNCHANGED <<load, processors, rpc, rtmp, req, w, wg, tasks, metricVars, crashed>>

\* lines 59-60 / 91-92: metrics.ProcessingDuration.Observe(duration)
ObserveDuration(h) ==
    /\ ~crashed
    /\ pc[h] = "observe"
    /\ observed' = observed + 1
    /\ pc' = [pc EXCEPT ![h] = "respond"]
    /\ UNCHANGED <<load, regVars, req, w, cur, snap, next, wg, tasks, received,
                   processed, errors, crashed, hist>>

\* lines 62-68 / 94-98: the success response
Respond(h) ==
    /\ ~crashed
    /\ pc[h] = "respond"
    /\ w' = [w EXCEPT ![h] = IF req[h].path = "envelope"
                             THEN RespondEnvelope(@, req[h].n)
                             ELSE RespondArray(@, req[h].n)]
    /\ pc' = [pc EXCEPT ![h] = "done"]
    /\ UNCHANGED <<load, regVars, req, cur, snap, next, wg, tasks, metricVars,
                   crashed, hist>>

\* ---- the goroutine of one (alert, processor): Process and the defers -----
Running(h, a, i, st) == ~crashed /\ tasks[h][a][i].st = st

\* registry.go 46-51: the deferred recover, then the deferred wg.Done(); the
\* goroutine ends.  faulted: Process panicked.
Defers(h, a, i, faulted) ==
    /\ crashed' = (faulted /\ PanicEscapes(faulted))
    /\ hist' = [hist EXCEPT ![h].faulted = @ \/ faulted]
    /\ wg' = [wg EXCEPT ![h] = @ - 1]
    /\ tasks' = [tasks EXCEPT ![h][a][i] =
                    [NoTask EXCEPT !.st = "done", !.calls = tasks[h][a][i].calls]]

\* What one transmission leaves: the variants make one attempt and return
\* its error (webhook.go 61, slack.go 80, pagerduty.go 86, email.go 85)
\* (a Process that transmits again after a failure)
AfterSendRetry(t, failed) ==
    [t EXCEPT !.att = @ + 1,
              !.st = IF failed THEN (IF t.att < 1 THEN "start" ELSE "err") ELSE "ok"]

AfterSend(t, failed) ==
    [t EXCEPT !.att = @ + 1, !.st = IF failed THEN "err" ELSE "ok"]

\* the alert and the receiver after the body of Process ran in goroutine
\* (h, a, i): processor i of the registry on alert a of request h
Shared(h, a, i) ==
    /\ req' = [req EXCEPT ![h].alerts[a] = AlertAfter(tasks[h][a][i].kind, @)]
    /\ processors' = [processors EXCEPT ![i] = ConfigAfter(@)]

\* Slack, email, webhook, PagerDuty: build the message and transmit it; the
\* destination answers
Transmit(h, a, i) ==
    /\ Running(h, a, i, "start")
    /\ tasks[h][a][i].kind # "basic"
    /\ \E reply \in Replies(tasks[h][a][i].kind) :
          LET failed == SendFails(tasks[h][a][i].kind, reply)
              t == [AfterSend(tasks[h][a][i], failed) EXCEPT !.reply = reply]
          IN /\ tasks' = [tasks EXCEPT ![h][a][i] = t]
             /\ hist' = [hist EXCEPT ![h].failed =
                            IF t.st = "err" THEN @ + 1 ELSE @]
    /\ Shared(h, a, i)
    /\ UNCHANGED <<load, mu, rpc, rtmp, pc, w, cur, snap, next, wg, metricVars,
                   crashed>>

\* the end of Process after the transmission: AlertsProcessingErrors.Inc()
\* and return, or AlertsProcessed.Inc() and return; then the defers
Finish(h, a, i) ==
    /\ ~crashed
    /\ tasks[h][a][i].st \in {"ok", "err"}
    /\ processed' = processed + CountProcessed(tasks[h][a][i].st)
    /\ errors' = errors + CountError(tasks[h][a][i].st)
    /\ Defers(h, a, i, FALSE)
    /\ UNCHANGED <<load, regVars, reqVars, received, observed>>

\* BasicProcessor.Process (basicprocessor.go 14-31): logs and returns; then
\* the defers
BasicProcess(h, a, i) ==
    /\ Running(h, a, i, "start")
    /\ tasks[h][a][i].kind = "basic"
    /\ Defers(h, a, i, FALSE)
    /\ Shared(h, a, i)
    /\ UNCHANGED <<load, mu, rpc, rtmp, pc, w, cur, snap, next, metricVars>>

\* Process raises a runtime fault before it has transmitted; the defers run
Panic(h, a, i) ==
    /\ Running(h, a, i, "start")
    /\ Defers(h, a, i, TRUE)
    /\ UNCHANGED <<load, regVars, reqVars, metricVars>>

\* ---- the program ----------------------------------------------------------
RegistryNext ==
    \/ \E r \in Registrars : RegisterLock(r)
    \/ \E r \in Registrars : RegisterAcquire(r)
    \/ \E r \in Registrars : RegisterAppend(r)

HandlerNext(h) ==
    \/ ServeHTTP(h)
    \/ ProcessAlertRLock(h)
    \/ ProcessAlertSpawn(h)
    \/ ProcessAlertReturn(h)
    \/ ObserveDuration(h)
    \/ Respond(h)

GoroutineNext(h) ==
    \/ \E a \in AlertIdx, i \in Slots : Transmit(h, a, i)
    \/ \E a \in AlertIdx, i \in Slots : BasicProcess(h, a, i)
    \/ \E a \in AlertIdx, i \in Slots : Panic(h, a, i)
    \/ \E a \in AlertIdx, i \in Slots : Finish(h, a, i)

\* One request served (two dispatches when it carries two alerts) while
\* Register calls run concurrently.
First == {1}

Next ==
    \/ RegistryNext
    \/ \E h \in First : HandlerNext(h)
    \/ \E h \in First : GoroutineNext(h)

Spec == Init /\ [][Next]_vars

\* ---- scheduling --------------------------------------------------------------
\* The Go scheduler runs every goroutine that can take a step: a Register
\* call that has called Lock gets the lock once the readers have left and
\* then appends and unlocks; the handler goroutine goes on whenever it is
\* not blocked in RLock or Wait; and every Process call returns or panics
\* (its destination answers, or its client times out).
Fairness ==
    /\ \A r \in Registrars : WF_vars(RegisterAcquire(r))
    /\ \A r \in Registrars : WF_vars(RegisterAppend(r))
    /\ \A h \in First : WF_vars(ProcessAlertRLock(h))
    /\ \A h \in First : WF_vars(ProcessAlertSpawn(h))
    /\ \A h \in First : WF_vars(ProcessAlertReturn(h))
    /\ \A h \in First : WF_vars(ObserveDuration(h))
    /\ \A h \in First : WF_vars(Respond(h))
    /\ \A h \in First : WF_vars(GoroutineNext(h))

SpecLive == Spec /\ Fairness

\* ---- concurrent valid requests ---------------------------------------------
\* Every request is served, concurrently with the others and with the first
\* Register call; the clients send valid POST requests only: a bare array or
\* an envelope of alert objects, of up to MaxAlerts alerts for the first
\* client and of one alert for the others.
ValidBodies(h) ==
    {Body(t, n, "object", IF t = "envelope" THEN "m1" ELSE "") :
        t \in {"array", "envelope"},
        n \in 1..(IF h = 1 THEN MaxAlerts ELSE 1)}

\* a client sends a valid request
ServeValid(h) ==
    /\ ServeHTTP(h)
    /\ req'[h].method = "POST"
    /\ req'[h].body \in ValidBodies(h)

\* the first Register call starts
RegisterFirst(r) == r = 1 /\ RegisterLock(r)

NextConc ==
    \/ \E r \in Registrars : RegisterFirst(r)
    \/ \E r \in Registrars : RegisterAcquire(r)
    \/ \E r \in Registrars : RegisterAppend(r)
    \/ \E h \in Requests : ServeValid(h)
    \/ \E h \in Requests : ProcessAlertRLock(h)
    \/ \E h \in Requests : ProcessAlertSpawn(h)
    \/ \E h \in Requests : ProcessAlertReturn(h)
    \/ \E h \in Requests : ObserveDuration(h)
    \/ \E h \in Requests : Respond(h)
    \/ \E h \in Requests : GoroutineNext(h)

SpecConc == Init /\ [][NextConc]_vars

\* ---- concurrent registrations and dispatches --------------------------------
\* Every Register call and every request runs concurrently with all the
\* others, under the scheduling of the Go runtime.  Each client posts an
\* array of one alert, and the Register calls register a generic webhook or
\* the logging-only processor.
RegisterAppendPlain(r) ==
    /\ RegisterAppend(r)
    /\ processors'[Len(processors')] \in {"basic", "webhook"}

ServeOne(h) ==
    /\ ServeHTTP(h)
    /\ req'[h].method = "POST"
    /\ req'[h].body = Body("array", 1, "object", "")

NextLock ==
    \/ \E r \in Registrars : RegisterLock(r)
    \/ \E r \in Registrars : RegisterAcquire(r)
    \/ \E r \in Registrars : RegisterAppendPlain(r)
    \/ \E h \in Requests : ServeOne(h)
    \/ \E h \in Requests : ProcessAlertRLock(h)
    \/ \E h \in Requests : ProcessAlertSpawn(h)
    \/ \E h \in Requests : ProcessAlertReturn(h)
    \/ \E h \in Requests : ObserveDuration(h)
    \/ \E h \in Requests : Respond(h)
    \/ \E h \in Requests : GoroutineNext(h)

FairnessLock ==
    /\ \A r \in Registrars : WF_vars(RegisterAcquire(r))
    /\ \A r \in Registrars : WF_vars(RegisterAppendPlain(r))
    /\ \A h \in Requests : WF_vars(ProcessAlertRLock(h))
    /\ \A h \in Requests : WF_vars(ProcessAlertSpawn(h))
    /\ \A h \in Requests : WF_vars(ProcessAlertReturn(h))
    /\ \A h \in Requests : WF_vars(GoroutineNext(h))

SpecLock == Init /\ [][NextLock]_vars /\ FairnessLock

\* ---- Registry.LoadFromConfig (registry.go 59-82) -----------------------------
\* A destination descriptor (config.ProcessorConfig): its type, its enabled
\* flag, and the state of the settings its constructor requires
\* (webhook_url; smtp_host, smtp_user, smtp_password, from, to; url;
\* integration_key): missing, present but empty or of another type than
\* string ("empty"), or set.
MaxDescriptors == 2
Types == Kinds \cup {"unknown"}
Descriptors ==
    [type : Types, enabled : BOOLEAN, settings : {"missing", "empty", "set"}]
RECURSIVE SeqsUpTo(_, _)
SeqsUpTo(S, n) ==
    IF n = 0 THEN {<<>>}
    ELSE LET shorter == SeqsUpTo(S, n - 1)
         IN shorter \cup {Append(q, x) : q \in shorter, x \in S}
Configs == SeqsUpTo(Descriptors, MaxDescriptors)

\* NewSlackProcessor, NewEmailProcessor, NewWebhookProcessor and
\* NewPagerDutyProcessor: `v, ok := cfg[key].(string); !ok || v == ""` is an
\* error
NewProcessor(d) ==
    IF d.settings = "set" THEN [err |-> FALSE, kind |-> d.type]
    ELSE [err |-> TRUE, kind |-> ""]

\* Factory.CreateProcessor (unnamed/part_001 27-42)
\* (a factory that builds whatever it is asked for)
CreateProcessorAny(d) == [err |-> FALSE, kind |-> d.type]
CreateProcessor(d) ==
    CASE d.type \in {"slack", "email", "webhook", "pagerduty"} -> NewProcessor(d)
      [] d.type = "basic" -> [err |-> FALSE, kind |-> "basic"]
      [] OTHER -> [err |-> TRUE, kind |-> ""]

Loading == load.ret = "running" /\ load.i <= Len(load.cfg)

\* lines 63-66: the descriptor is disabled: continue
LoadSkipDisabled ==
    /\ Loading
    /\ ~load.cfg[load.i].enabled
    /\ load' = [load EXCEPT !.i = @ + 1]
    /\ UNCHANGED <<regVars, reqVars, wg, tasks, metricVars, crashed, hist>>

\* lines 68-72: CreateProcessor returns an error: log it and continue
LoadCreateFails ==
    /\ Loading
    /\ load.cfg[load.i].enabled
    /\ CreateProcessor(load.cfg[load.i]).err
    /\ load' = [load EXCEPT !.i = @ + 1]
    /\ UNCHANGED <<regVars, reqVars, wg, tasks, metricVars, crashed, hist>>

\* lines 68-78: the processor is created and r.Register(processor) appends
\* it under the write lock (no other goroutine runs yet: main.go 54-57)
LoadRegister ==
    /\ Loading
    /\ load.cfg[load.i].enabled
    /\ ~CreateProcessor(load.cfg[load.i]).err
    /\ CanLock(mu) /\ LockGranted(mu)
    /\ processors' = Append(processors, CreateProcessor(load.cfg[load.i]).kind)
    /\ load' = [load EXCEPT !.i = @ + 1]
    /\ UNCHANGED <<mu, rpc, rtmp, reqVars, wg, tasks, metricVars, crashed, hist>>

\* line 81: return nil
LoadReturn ==
    /\ load.ret = "running"
    /\ load.i > Len(load.cfg)
    /\ load' = [load EXCEPT !.ret = "nil"]
    /\ UNCHANGED <<regVars, reqVars, wg, tasks, metricVars, crashed, hist>>

\* LoadFromConfig is called on a new registry with any configuration
InitLoad ==
    /\ processors = <<>>
    /\ mu = NewRWMutex
    /\ rpc = [r \in Registrars |-> "idle"]
    /\ rtmp = [r \in Registrars |-> <<>>]
    /\ pc = [h \in Requests |-> "idle"]
    /\ req = [h \in Requests |-> NoReq]
    /\ w = [h \in Requests |-> NewResponseWriter]
    /\ cur = [h \in Requests |-> 0]
    /\ snap = [h \in Requests |-> <<>>]
    /\ next = [h \in Requests |-> 0]
    /\ wg = [h \in Requests |-> 0]
    /\ tasks = [h \in Requests |-> [a \in AlertIdx |-> [i \in Slots |-> NoTask]]]
    /\ received = 0
    /\ processed = 0
    /\ errors = 0
    /\ observed = 0
    /\ crashed = FALSE
    /\ hist = [h \in Requests |-> NoHist]
    /\ \E cfg \in Configs : load = [cfg |-> cfg, i |-> 1, ret |-> "running"]

NextLoad ==
    \/ LoadSkipDisabled
    \/ LoadCreateFails
    \/ LoadRegister
    \/ LoadReturn

SpecLoad == InitLoad /\ [][NextLoad]_vars

\* ---- a valid request among arbitrary requests ------------------------------
\* The first client sends a valid request; the other clients send any
\* request, through the router or not, with a list of at most one element.
ServeFirst(h) == h = 1 /\ ServeValid(h)

ServeAny(h) ==
    /\ h # 1
    /\ ServeHTTP(h)
    /\ req'[h].body.n <= 1

NextMixed ==
    \/ \E r \in Registrars : RegisterFirst(r)
    \/ \E r \in Registrars : RegisterAcquire(r)
    \/ \E r \in Registrars : RegisterAppend(r)
    \/ \E h \in Requests : ServeFirst(h)
    \/ \E h \in Requests : ServeAny(h)
    \/ \E h \in Requests : ProcessAlertRLock(h)
    \/ \E h \in Requests : ProcessAlertSpawn(h)
    \/ \E h \in Requests : ProcessAlertReturn(h)
    \/ \E h \in Requests : ObserveDuration(h)
    \/ \E h \in Requests : Respond(h)
    \/ \E h \in Requests : GoroutineNext(h)

SpecMixed == Init /\ [][NextMixed]_vars

\* ---- claims -----------------------------------------------------------------
Launched(h, a) == {i \in Slots : tasks[h][a][i].st # "none"}
Ended(h, a) == \A i \in Slots : tasks[h][a][i].st \in {"none", "done"}
Accepted(h) == req[h].path \in {"envelope", "array"}
\* wg.Wait() of the current dispatch of h is about to return
Returning(h) == pc[h] = "wait" /\ wg[h] = 0
\* the alerts of h whose dispatch has returned
Returned(h) ==
    {a \in AlertIdx : \/ a < cur[h]
                      \/ a = cur[h] /\ pc[h] \in {"observe", "respond", "done"}}

\* C1: a panic of one processor never leaves its goroutine (the process is
\* not killed and the caller of ProcessAlert sees nothing of it), the dispatch
\* can return as soon as all its goroutines have ended, and when it returns
\* after a panic every processor of the registry has been run once and has
\* ended.
C1_PanicIsolated ==
    /\ ~crashed
    /\ \A h \in Requests :
          (pc[h] = "wait" /\ hist[h].faulted) =>
             /\ Ended(h, cur[h]) => wg[h] = 0
             /\ wg[h] = 0 =>
                   \A i \in 1..hist[h].atLock :
                      /\ tasks[h][cur[h]][i].st = "done"
                      /\ tasks[h][cur[h]][i].calls = 1

\* a dispatch to two processors is returning: one panicked, its sibling
\* transmitted and counted
C1_Witness ==
    \E h \in Requests :
       /\ Returning(h) /\ cur[h] = 1 /\ hist[h].faulted
       /\ hist[h].atLock = 2
       /\ processed + errors = 1

\* C2: when the range loop of a dispatch over N >= 1 processors has ended,
\* Process has been invoked exactly once for each of the N processors that
\* were registered when the read lock was taken, and for nothing else.
C2_EachExactlyOnce ==
    \A h \in Requests :
       /\ \A a \in AlertIdx, i \in Slots : tasks[h][a][i].calls <= 1
       /\ pc[h] = "wait" =>
             /\ hist[h].atLock >= 1
             /\ \A i \in Slots :
                   tasks[h][cur[h]][i].calls = IF i <= hist[h].atLock THEN 1 ELSE 0

C2_Witness ==
    \E h \in Requests :
       /\ Returning(h) /\ hist[h].atLock = 2
       /\ \A i \in 1..2 : tasks[h][cur[h]][i].calls = 1 /\ tasks[h][cur[h]][i].st = "done"

\* C3: once ProcessAlert has returned for an alert, every goroutine it
\* launched for that alert has ended; outside a dispatch the WaitGroup of
\* the request is at zero.
C3_FanIn ==
    \A h \in Requests :
       /\ \A a \in Returned(h) : Ended(h, a)
       /\ pc[h] \notin {"spawn", "wait"} => wg[h] = 0

\* the first dispatch has returned with two goroutines ended, the second is
\* about to start
C3_Witness ==
    \E h \in Requests :
       /\ pc[h] = "dispatch" /\ cur[h] = 2
       /\ \A i \in 1..2 : tasks[h][1][i].st = "done"

\* C4: when the success response of an accepted request (envelope or bare
\* array) has been written, no goroutine launched for any alert of the
\* request is still running.
C4_ResponseAfterTasks ==
    \A h \in Requests :
       (Accepted(h) /\ w[h].wroteHeader) =>
          \A a \in AlertIdx : Ended(h, a)

\* an envelope of two alerts has been answered after four goroutines ended
C4_Witness ==
    \E h \in Requests :
       /\ req[h].path = "envelope" /\ req[h].n = 2
       /\ w[h].wroteHeader /\ w[h].code = StatusOK
       /\ \A a \in 1..2, i \in 1..2 : tasks[h][a][i].st = "done"

\* C5: an accepted request of N alerts is answered 200 with count N whatever
\* its transmissions did, and if one of them failed the error counter is by
\* then at least one above its value when the request was accepted.
C5_OutcomeIndependent ==
    \A h \in Requests :
       (Accepted(h) /\ pc[h] = "done") =>
          /\ w[h].code = StatusOK
          /\ w[h].body.status = "success"
          /\ w[h].body.count = req[h].body.n
          /\ req[h].body.n >= 1
          /\ hist[h].failed >= 1 => errors >= hist[h].errBefore + 1

\* every transmission of a request of two alerts failed and it got its 200
C5_Witness ==
    \E h \in Requests :
       /\ Accepted(h) /\ pc[h] = "done" /\ req[h].n = 2
       /\ hist[h].failed = 4 /\ processed = 0
       /\ w[h].code = StatusOK

\* C6: a panic of a processor is counted as its failure: the step in which a
\* goroutine of a dispatch panics adds one to AlertsProcessingErrors.
C6_PanicCounted ==
    [][\A h \in Requests :
          (~hist[h].faulted /\ hist'[h].faulted) => errors' = errors + 1]_vars

\* the step in which the Process call of goroutine (h, a, i) returns: it ends
\* after its transmission, or, for the logging-only processor, it ends in a
\* dispatch in which nothing has panicked
ProcessReturns(h, a, i) ==
    /\ tasks'[h][a][i].st = "done"
    /\ \/ tasks[h][a][i].st \in {"ok", "err"}
       \/ /\ tasks[h][a][i].st = "start"
          /\ tasks[h][a][i].kind = "basic"
          /\ ~hist'[h].faulted

\* C7: every Process call that returns, of any of the five processor
\* variants, has added exactly one to exactly one of AlertsProcessed and
\* AlertsProcessingErrors: never to both and never to neither.
C7_ExactlyOneCounter ==
    [][\A h \in Requests, a \in AlertIdx, i \in Slots :
          ProcessReturns(h, a, i) =>
             \/ processed' = processed + 1 /\ errors' = errors
             \/ processed' = processed /\ errors' = errors + 1]_vars

\* C8: a Process call transmits at most once: a goroutine that has not
\* transmitted is at zero attempts, one that has transmitted (with or
\* without success) is at exactly one, and none is ever above one.
C8_NoRetry ==
    \A h \in Requests, a \in AlertIdx, i \in Slots :
       /\ tasks[h][a][i].att <= 1
       /\ tasks[h][a][i].st = "start" => tasks[h][a][i].att = 0
       /\ tasks[h][a][i].st \in {"ok", "err"} => tasks[h][a][i].att = 1

\* a transmission has failed, its one attempt is made and not yet counted
C8_Witness ==
    \E h \in Requests, a \in AlertIdx, i \in Slots :
       /\ tasks[h][a][i].st = "err" /\ tasks[h][a][i].att = 1
       /\ hist[h].failed = 1 /\ errors = 0

\* C9: a dispatch that finds the registry empty takes the early return: it
\* launches no goroutine, never reaches the loop or the wait, and neither
\* taking that path nor returning from it changes a counter, a goroutine or
\* the WaitGroup.
C9_EmptyNoOp ==
    /\ [](\A h \in Requests :
             /\ pc[h] = "empty" =>
                   /\ hist[h].atLock = 0
                   /\ Launched(h, cur[h]) = {}
                   /\ wg[h] = 0
             /\ pc[h] \in {"spawn", "wait"} => hist[h].atLock >= 1)
    /\ [][\A h \in Requests :
             (pc[h] = "empty" \/ pc'[h] = "empty") =>
                /\ UNCHANGED <<processed, errors, received, wg, crashed>>
                /\ tasks'[h] = tasks[h]
                /\ pc'[h] \in {"empty", "dispatch", "observe"}]_vars

\* a request of two alerts has been dispatched twice to an empty registry
C9_Witness ==
    \E h \in Requests :
       /\ pc[h] = "observe" /\ req[h].n = 2
       /\ processors = <<>>
       /\ \A a \in AlertIdx : Launched(h, a) = {}
       /\ processed = 0 /\ errors = 0

\* C10: the registry holds one processor per Register call that has
\* returned; while a dispatch iterates, the slice it iterates is the
\* registry, unchanged since its read lock was taken, it contains at least
\* the processors of the Register calls that had returned by then, and
\* the goroutines it launches are those of that slice, each once.
C10_RegisterSafe ==
    /\ Len(processors) = Cardinality({r \in Registrars : rpc[r] = "done"})
    /\ \A h \in Requests :
          pc[h] \in {"spawn", "wait"} =>
             /\ snap[h] = processors
             /\ Len(snap[h]) = hist[h].atLock
             /\ hist[h].regDone <= Len(snap[h])
             /\ \A i \in Launched(h, cur[h]) :
                   /\ i <= Len(snap[h])
                   /\ tasks[h][cur[h]][i].calls = 1

\* a Register call ran between the two dispatches of a request: the first
\* dispatch saw one processor, the second sees both, while both calls have
\* returned
C10_Witness ==
    \E h \in Requests :
       /\ cur[h] = 2 /\ pc[h] = "wait"
       /\ Launched(h, 1) = {1} /\ Launched(h, 2) = {1, 2}
       /\ \A r \in 1..2 : rpc[r] = "done"
       /\ hist[h].regDone = 2

\* a dispatch of request h is in progress: ProcessAlert holds the read lock
InDispatch(h) == pc[h] \in {"spawn", "wait", "empty"}
\* a Register call has called Lock and has not returned
Registering == \E r \in Registrars : rpc[r] \in {"pending", "held"}

\* C11 (as stated): a dispatch that is about to take the read lock while
\* another dispatch is in progress is never made to wait: the read lock is
\* free for it.
C11_NeverWaits ==
    \A h \in Requests :
       (pc[h] = "dispatch" /\ \E g \in Requests \ {h} : InDispatch(g))
          => CanRLock(mu)

\* C11 (amended): the dispatches in progress are exactly the holders of the
\* read lock, any number of them at a time, and while no Register call is
\* between its Lock and its return, a dispatch that is about to take the
\* read lock can take it whatever the other dispatches are doing.
C11_ParallelDispatch ==
    /\ mu.readers = Cardinality({h \in Requests : InDispatch(h)})
    /\ \A h \in Requests :
          (pc[h] = "dispatch" /\ ~Registering) => CanRLock(mu)

\* two dispatches hold the read lock, each with a goroutine running
C11_Witness ==
    /\ mu.readers = 2
    /\ \A h \in 1..2 : pc[h] = "wait" /\ wg[h] = 1

\* processor j has finished alert a of request h and the request has further
\* alerts, but the dispatch of alert a is still waiting for a sibling that
\* has not finished: the next alert is held back from j
HeldBack(h, j) ==
    /\ pc[h] = "wait" /\ cur[h] < req[h].n
    /\ tasks[h][cur[h]][j].st = "done"
    /\ \E i \in Slots \ {j} : tasks[h][cur[h]][i].st \in {"start", "ok", "err"}

\* C12: a slow or blocked destination never stalls the delivery of a
\* request's alerts to the other destinations: no processor that has
\* finished an alert is held back from the next alert of the request by a
\* sibling that is still busy.
C12_NoStall == \A h \in Requests, j \in Slots : ~HeldBack(h, j)

\* C13: no processor ever crashes the process; every ProcessAlert call that
\* has been made (for alert a of request h) returns; and every accepted
\* request gets its 200 response.
C13_Terminates ==
    /\ []~crashed
    /\ \A h \in Requests, a \in AlertIdx :
          (pc[h] = "dispatch" /\ cur[h] = a) ~> (a \in Returned(h))
    /\ \A h \in Requests :
          Accepted(h) ~> (pc[h] = "done" /\ w[h].code = StatusOK)

\* a request of two alerts has been answered although, of the four calls of
\* its two webhook processors, one failed its transmission and three panicked
C13_Witness ==
    \E h \in Requests :
       /\ Accepted(h) /\ pc[h] = "done" /\ req[h].n = 2
       /\ \A a \in AlertIdx : Launched(h, a) = {1, 2}
       /\ processors = <<"webhook", "webhook">>
       /\ errors = 1 /\ processed = 0

\* the sum of the alert counts of the accepted requests of hs
RECURSIVE SumCounts(_)
SumCounts(hs) ==
    IF hs = {} THEN 0
    ELSE LET h == CHOOSE x \in hs : TRUE
         IN req[h].n + SumCounts(hs \ {h})

\* C14: with concurrent valid requests, every completed request has been
\* answered 200 with its alert count; AlertsReceived is at every moment the
\* sum of the counts of the requests accepted so far, hence the sum of all
\* counts once all have completed; and it never decreases.
C14_ReceivedSum ==
    /\ [](\A h \in Requests :
             pc[h] = "done" =>
                /\ w[h].code = StatusOK
                /\ w[h].body.count = req[h].n)
    /\ [](received = SumCounts({h \in Requests : Accepted(h)}))
    /\ []((\A h \in Requests : pc[h] = "done") =>
             received = SumCounts(Requests))
    /\ [][received' >= received]_vars

\* two concurrent requests have both been answered: two alerts and one
\* alert, three received
C14_Witness ==
    /\ \A h \in 1..2 : pc[h] = "done" /\ w[h].code = StatusOK
    /\ req[1].n = 2 /\ req[2].n = 1
    /\ received = 3

\* request h has arrived as a POST whose body was read
Posted(h) == req[h].method = "POST" /\ req[h].body.t \notin {"none", "readerr"}
\* nothing of request h has reached the registry or the counters
Undispatched(h) ==
    /\ req[h].n = 0
    /\ hist[h].sent = <<>>
    /\ \A a \in AlertIdx : Launched(h, a) = {}
    /\ received = SumCounts({g \in Requests : Accepted(g)})
\* the error response of status code and reason msg, on a fresh writer
ErrorResponse(code, msg) ==
    [NewResponseWriter EXCEPT
        !.wroteHeader = TRUE, !.code = code, !.hdr = "application/json",
        !.sentCT = "application/json",
        !.body = [status |-> "error", error |-> msg]]

\* C15: a POST whose body is a bare array of n >= 1 alert objects is taken
\* by the array branch with its n alerts and, once served, has the response
\* 200 {status: "success", count: n}, whatever its processors did.
C15_ArrayCount ==
    \A h \in Requests :
       (Posted(h) /\ req[h].body.t = "array" /\ req[h].body.n >= 1
           /\ req[h].body.elem = "object") =>
          /\ req[h].path = "array" /\ req[h].n = req[h].body.n
          /\ pc[h] = "done" =>
                /\ w[h].code = StatusOK
                /\ w[h].body = SuccessPayload(req[h].body.n)

\* an array of two alerts is answered 200 with count 2 after a transmission
\* failed and a processor panicked
C15_Witness ==
    \E h \in Requests :
       /\ Posted(h) /\ req[h].body = Body("array", 2, "object", "")
       /\ pc[h] = "done"
       /\ w[h].code = StatusOK /\ w[h].body.count = 2
       /\ processors = <<"slack", "webhook">>
       /\ \A a \in AlertIdx : Launched(h, a) = {1, 2}
       /\ errors = 1 /\ processed = 2

DecodesAsNeither(b) ==
    \/ b.t \in {"garbage", "scalar", "object"}
    \/ b.t = "envelope" /\ (b.n = 0 \/ b.elem = "other")
    \/ b.t = "array" /\ b.n >= 1 /\ b.elem = "other"

\* C17: a POST whose body decodes as neither shape is served at once with
\* status 400 and the error envelope {status: "error", error: "Invalid JSON
\* format"}, sent as application/json, and nothing of it is dispatched or
\* counted.
C17_InvalidJSON ==
    \A h \in Requests :
       (Posted(h) /\ DecodesAsNeither(req[h].body)) =>
          /\ pc[h] = "done"
          /\ req[h].path = "reject"
          /\ w[h] = ErrorResponse(StatusBadRequest, "Invalid JSON format")
          /\ Undispatched(h)

\* the text `invalid json` has been answered 400 while the registry holds a
\* processor
C17_Witness ==
    \E h \in Requests :
       /\ Posted(h) /\ req[h].body.t = "garbage" /\ pc[h] = "done"
       /\ w[h].code = StatusBadRequest /\ w[h].body.status = "error"
       /\ Len(processors) >= 1

\* C18: a POST whose body is the empty array [] is served at once with
\* status 400 and the error envelope {status: "error", error: "No alerts in
\* request"}; nothing is dispatched or counted, and no success response
\* with count 0 exists.
C18_EmptyArray ==
    \A h \in Requests :
       /\ (Posted(h) /\ req[h].body = Body("array", 0, "", "")) =>
             /\ pc[h] = "done"
             /\ req[h].path = "reject"
             /\ w[h] = ErrorResponse(StatusBadRequest, "No alerts in request")
             /\ Undispatched(h)
       /\ (w[h].wroteHeader /\ w[h].code = StatusOK) => w[h].body.count >= 1

\* [] has been answered 400 while the registry holds a processor
C18_Witness ==
    \E h \in Requests :
       /\ Posted(h) /\ req[h].body = Body("array", 0, "", "") /\ pc[h] = "done"
       /\ w[h].code = StatusBadRequest
       /\ w[h].body.error = "No alerts in request"
       /\ Len(processors) >= 1

\* the response ServeHTTP gives to a POST of body b that it rejects
RejectionOf(b) ==
    LET d == Decide("POST", b)
    IN ErrorResponse(d.code, d.msg)

\* C19: a POST of an envelope whose alert list is empty or missing is
\* answered with the response of the empty array []: the same status, the
\* same error envelope and the same reason.
C19_SameAsEmptyArray ==
    \A h \in Requests :
       (Posted(h) /\ pc[h] = "done"
           /\ \/ req[h].body.t = "envelope" /\ req[h].body.n = 0
              \/ req[h].body.t = "object") =>
          w[h] = RejectionOf(Body("array", 0, "", ""))

\* C20: every POST whose body is JSON but neither an envelope with a
\* non-empty list of alert objects nor an array of alert objects (an object
\* without alerts, null, a scalar, a list with an element that is no alert
\* object) is answered 400; no 200 response has count 0; and every alert
\* handed to ProcessAlert is an alert object of the body.
C20_NeverMisread ==
    \A h \in Requests :
       /\ (Posted(h) /\ pc[h] = "done"
             /\ \/ req[h].body.t \in {"object", "null", "scalar"}
                \/ req[h].body.t \in {"array", "envelope"}
                      /\ req[h].body.elem \in {"null", "other"}) =>
             w[h].code = StatusBadRequest
       /\ (w[h].wroteHeader /\ w[h].code = StatusOK) => w[h].body.count >= 1
       /\ \A k \in 1..Len(hist[h].sent) : hist[h].sent[k].elem = "object"

\* C21: every served request with a method other than POST has the response
\* 405 with the error envelope {status: "error", error: message}, and its
\* body was not read.
C21_MethodNotAllowed ==
    \A h \in Requests :
       (pc[h] = "done" /\ req[h].method # "POST") =>
          /\ w[h].code = StatusMethodNotAllowed
          /\ ~req[h].read
          /\ w[h].body.status = "error"
          /\ w[h].body = [status |-> "error", error |-> w[h].body.error]

\* request h ended in an error response (the router's 405 or respondWithError)
Refused(h) == req[h].path \in {"router", "reject"}
\* the step answers request h with an error response
Refuses(h) == pc[h] = "idle" /\ pc'[h] = "done"

\* C22: a request that ends in an error response (405, or 400 for a body
\* read failure, an invalid format or an empty list) changes no counter and
\* not the duration histogram and invokes no processor; a request touches
\* them only after a non-empty alert sequence has been determined.
C22_ErrorNoSideEffect ==
    /\ [](\A h \in Requests :
            /\ Refused(h) =>
                  /\ pc[h] = "done"
                  /\ w[h].code \in {StatusMethodNotAllowed, StatusBadRequest}
                  /\ Undispatched(h)
            /\ pc[h] # "idle" => (Refused(h) \/ (Accepted(h) /\ req[h].n >= 1))
            /\ (pc[h] = "done" /\ w[h].code # StatusOK) => Refused(h))
    /\ [][\A h \in Requests :
            Refuses(h) =>
               /\ Refused(h)'
               /\ UNCHANGED <<received, processed, errors, observed, tasks,
                              snap, hist>>]_vars
    /\ [](observed <= Cardinality({h \in Requests : Accepted(h)}))

\* a request whose body could not be read has been answered 400 after the
\* dispatch of another request moved the counters
C22_Witness ==
    \E h \in Requests :
       /\ Refused(h) /\ w[h].code = StatusBadRequest
       /\ req[h].body.t = "readerr"
       /\ received >= 1 /\ processed + errors >= 1 /\ observed = 1

\* ServeHTTP of request h has passed its dispatch loop
PastDispatch(h) == pc[h] \in {"observe", "respond", "done"}

\* C23: an accepted request of N alerts adds N to the received counter
\* once, before its first dispatch; dispatches each of its N alerts once,
\* in sequence; observes the duration histogram once, after the last
\* dispatch has returned; and then writes the 200 response, once.
C23_StepsInOrder ==
    /\ received = SumCounts({h \in Requests : Accepted(h)})
    /\ observed = Cardinality({h \in Requests :
                                  Accepted(h) /\ pc[h] \in {"respond", "done"}})
    /\ \A h \in Requests :
          Accepted(h) =>
             /\ Len(hist[h].sent) <= req[h].n
             /\ hist[h].sent =
                   SubSeq(Alerts(req[h].body), 1, Len(hist[h].sent))
             /\ Len(hist[h].sent) = IF PastDispatch(h) THEN req[h].n ELSE
                                    IF pc[h] = "dispatch" THEN cur[h] - 1
                                    ELSE cur[h]
             /\ PastDispatch(h) => \A a \in AlertIdx : Ended(h, a)
             /\ w[h].wroteHeader <=> pc[h] = "done"
             /\ pc[h] = "done" =>
                   /\ w[h].code = StatusOK
                   /\ w[h].body = SuccessPayload(req[h].n)

\* a request of MaxAlerts alerts has been answered 200 after its processors
\* ran, while another accepted request is still in its dispatch
C23_Witness ==
    \E h, g \in Requests :
       /\ Accepted(h) /\ req[h].n = MaxAlerts /\ pc[h] = "done"
       /\ \A a \in AlertIdx : Launched(h, a) # {}
       /\ Accepted(g) /\ pc[g] = "wait"

\* C24: Process writes neither to the alert it is given nor to the
\* configuration of its processor: every step leaves the decoded alerts of
\* each accepted request and the processors already registered as they
\* were, so all goroutines of an alert, and all calls of one processor,
\* work on the same unchanged values.
C24_ProcessReadOnly ==
    /\ [](\A h \in Requests :
            /\ Accepted(h) => req[h].alerts = Alerts(req[h].body)
            /\ \A j \in DOMAIN snap[h] :
                  j <= Len(processors) /\ snap[h][j] = processors[j]
            /\ \A a \in AlertIdx : \A i \in Launched(h, a) :
                  tasks[h][a][i].st # "done" =>
                     tasks[h][a][i].kind = processors[i])
    /\ [][/\ \A h \in Requests :
                Accepted(h) => req'[h].alerts = req[h].alerts
          /\ \A j \in DOMAIN processors : processors'[j] = processors[j]]_vars

\* two processors have run on the same alert, one of them PagerDuty, while
\* a third goroutine of a later alert is still running
C24_Witness ==
    \E h \in Requests, a \in AlertIdx :
       /\ Accepted(h) /\ a < cur[h]
       /\ Cardinality(Launched(h, a)) >= 2
       /\ \E i \in Launched(h, a) : processors[i] = "pagerduty"
       /\ \E i \in Slots : tasks[h][cur[h]][i].st = "start"

\* the destination answered with a status in 200..299
Is2xx(reply) == ~reply.err /\ reply.status >= 200 /\ reply.status <= 299

\* C25: each HTTP-based processor (webhook, Slack, PagerDuty) ends Process
\* by adding one to processed when its destination answered with a status
\* in 200..299, and by adding one to processing errors when the answer had
\* another status or the request failed on the network.
C25_StatusClass ==
    [][\A h \in Requests, a \in AlertIdx, i \in Slots :
          (/\ tasks[h][a][i].kind \in HTTPKinds
           /\ tasks[h][a][i].st \in {"ok", "err"}
           /\ tasks'[h][a][i].st = "done") =>
             IF Is2xx(tasks[h][a][i].reply)
             THEN processed' = processed + 1 /\ errors' = errors
             ELSE processed' = processed /\ errors' = errors + 1]_vars

\* the descriptor is one that the configuration asks to be loaded and that
\* can be: enabled, of a known type, with the settings its type requires
Loadable(d) ==
    /\ d.enabled
    /\ d.type \in {"basic", "slack", "email", "webhook", "pagerduty"}
    /\ (d.type = "basic" \/ d.settings = "set")
\* the types of the loadable descriptors of a configuration, in its order
TypesOf(ds) == [j \in 1..Len(ds) |-> ds[j].type]
Expected(cfg) == TypesOf(SelectSeq(cfg, Loadable))

\* C26: LoadFromConfig registers one processor for each descriptor that is
\* enabled, of a known type and has its required settings, in the order of
\* the configuration; a disabled descriptor, an unknown type or a missing
\* setting registers nothing and does not stop the descriptors after it;
\* and the load returns no error.
C26_LoadFromConfig ==
    /\ load.ret \in {"running", "nil"}
    /\ load.i \in 1..(Len(load.cfg) + 1)
    /\ processors = Expected(SubSeq(load.cfg, 1, load.i - 1))
    /\ load.ret = "nil" => processors = Expected(load.cfg)

\* the load has returned after a descriptor that registers nothing was
\* followed by one that was registered
C26_Witness ==
    /\ load.ret = "nil"
    /\ Len(load.cfg) = 2
    /\ ~Loadable(load.cfg[1]) /\ load.cfg[1].enabled
    /\ processors = <<load.cfg[2].type>>

\* C27: the lock of the registry neither deadlocks nor starves: every
\* Register call that has called Lock returns, and every ProcessAlert call
\* returns, whatever the interleaving of registrations and dispatches; and
\* a Register call that waits for the lock waits only for the dispatches
\* that already hold it, no dispatch that arrives later gets in before it.
C27_LockLive ==
    /\ \A r \in Registrars : (rpc[r] = "pending") ~> (rpc[r] = "done")
    /\ \A h \in Requests, a \in AlertIdx :
          (pc[h] = "dispatch" /\ cur[h] = a) ~> (a \in Returned(h))
    /\ [][(\E r \in Registrars : rpc[r] = "pending")
             => mu'.readers <= mu.readers]_vars

\* a Register call waits for the lock that one dispatch holds while a
\* second dispatch and a second Register call wait behind it
C27_Witness ==
    /\ \E r \in Registrars : rpc[r] = "pending"
    /\ \E r \in Registrars : rpc[r] = "idle"
    /\ mu.readers = 1
    /\ \E h \in Requests : pc[h] = "dispatch"

\* C28: the alerts of a request are dispatched one at a time in the order
\* of the received list: the k-th alert handed to the registry is the k-th
\* of the list, goroutines run only for the alert being dispatched, and
\* when a processor is invoked for an alert every goroutine of every
\* earlier alert has ended.
C28_InSequence ==
    /\ [](\A h \in Requests :
            /\ \A k \in 1..Len(hist[h].sent) : hist[h].sent[k].pos = k
            /\ \A a \in AlertIdx :
                  /\ ~Ended(h, a) => (a = cur[h] /\ pc[h] \in {"spawn", "wait"})
                  /\ Launched(h, a) # {} =>
                        /\ a <= cur[h]
                        /\ Len(hist[h].sent) >= a
                        /\ \A b \in 1..(a - 1) : Ended(h, b))
    /\ [][\A h \in Requests :
             pc[h] # "idle" => cur'[h] \in {cur[h], cur[h] + 1}]_vars

\* a processor is running on the second alert after two processors have
\* completed the first
C28_Witness ==
    \E h \in Requests :
       /\ cur[h] = 2
       /\ \E i \in Slots : tasks[h][2][i].st = "start"
       /\ Cardinality(Launched(h, 1)) = 2 /\ Ended(h, 1)

\* requests h and g carry the same alert sequence
SameAlerts(h, g) ==
    /\ Accepted(h) /\ Accepted(g)
    /\ req[h].alerts = req[g].alerts

\* C29: a request sent as an envelope and a request sent as a bare array
\* with the same non-empty alert sequence are counted alike, hand the same
\* alerts in the same order to the registry, and get the same response: the
\* status code written once, the header Content-Type: application/json, and
\* the body {status, message, count}.
C29_WireShapesEquivalent ==
    /\ received = SumCounts({h \in Requests : Accepted(h)})
    /\ \A h, g \in Requests :
          (SameAlerts(h, g) /\ pc[h] = "done" /\ pc[g] = "done") =>
             /\ hist[h].sent = hist[g].sent
             /\ w[h] = w[g]
             /\ w[h].code = StatusOK
             /\ w[h].superfluous = 0
             /\ w[h].sentCT = "application/json"
             /\ w[h].body = SuccessPayload(req[h].n)

\* the sum of f over the finite set S
RECURSIVE SumFn(_, _)
SumFn(f, S) ==
    IF S = {} THEN 0
    ELSE LET x == CHOOSE y \in S : TRUE
         IN f[x] + SumFn(f, S \ {x})
Goroutines == Requests \X AlertIdx \X Slots
\* the number of Process invocations launched so far
Launches == SumFn([t \in Goroutines |-> tasks[t[1]][t[2]][t[3]].calls], Goroutines)
\* the alerts dispatched so far, and the sum over them of the number of
\* processors registered when the dispatch took its read lock
Dispatched == {t \in Requests \X AlertIdx : t[2] <= Len(hist[t[1]].lens)}
Capacity == SumFn([t \in Dispatched |-> hist[t[1]].lens[t[2]]], Dispatched)

\* C30: the three counters never decrease; processed plus processing
\* errors is at most the number of Process invocations launched so far;
\* that number is at most the sum, over the alerts dispatched, of the number
\* of processors registered at their dispatch; and the alerts dispatched
\* are among those counted in received.
C30_Accounting ==
    /\ [](/\ processed + errors <= Launches
          /\ Launches <= Capacity
          /\ Cardinality(Dispatched) <= received)
    /\ [][/\ received' >= received
          /\ processed' >= processed
          /\ errors' >= errors]_vars

\* two requests have been counted and dispatched; one invocation panicked
\* and is counted nowhere, another is launched and not yet counted
C30_Witness ==
    /\ received >= 2 /\ Cardinality(Dispatched) >= 2
    /\ processed >= 1 /\ errors >= 1
    /\ processed + errors < Launches
    /\ Launches = Capacity
    /\ \E t \in Goroutines : tasks[t[1]][t[2]][t[3]].st = "start"

====
